---------------------------- MODULE Spec2Model ----------------------------
(***************************************************************************)
(* Model of the crop-advice backend: the LLM service (prompt, provider    *)
(* call, reply parsing, batch aggregation) and the two POST routes that   *)
(* call it.                                                                *)
(*                                                                         *)
(* Texts are sequences of tokens.  A token is one of the six section      *)
(* labels (an atomic token, upper case as in the prompt or lower case),   *)
(* a content word, a space " " or a newline "\n".  No label is a          *)
(* substring of another and no sequence of the other tokens spells a      *)
(* label, so a label occurs in a text exactly where a label token occurs. *)
(* Numbers in [0,1] (confidence) are held in thousandths.                  *)
(***************************************************************************)
EXTENDS Integers, Sequences, FiniteSets, TLC

VARIABLES
    pc,         \* position of the route handler: "idle", "awaiting", "responded"
    endpoint,   \* "none", "single" (/crop-advice) or "batch" (/crop-advice/batch)
    body,       \* req.body of the request being served
    calls,      \* one entry per generateCropAdvice call issued, in call order
    batch,      \* the promise returned by generateBatchAdvice
    response,   \* what the route handler sent with res.status().json()
    clock,      \* logical time: number of provider calls that have completed
    text,       \* response.text handed to parseAdviceResponse (parser runs)
    edits,      \* number of edits applied to the well-formed reply
    parsed      \* outcome of parseAdviceResponse(text), or not yet run

vars == <<pc, endpoint, body, calls, batch, response, clock, text, edits, parsed>>

(* Bounds of the model. *)
MaxBatch == 2
MaxEdits == 2

-----------------------------------------------------------------------------
(* JavaScript values that may be undefined. *)
Undefined == [type |-> "undefined"]
Str(s) == [type |-> "string", val |-> s]

(* The labels of the six sections and the field each one fills. *)
Fields == <<"cause", "symptoms", "immediate", "chemical", "organic", "prevention">>
Labels == <<"CAUSE:", "SYMPTOMS:", "IMMEDIATE:", "CHEMICAL:", "ORGANIC:", "PREVENTION:">>
LowerLabels == <<"cause:", "symptoms:", "immediate:", "chemical:", "organic:", "prevention:">>

(* The label that ends section i in its regular expression ("" for the last). *)
NextLabel(i) == IF i < Len(Labels) THEN Labels[i + 1] ELSE ""

(* The fallback string of each field, a one-token text. *)
Fallbacks == <<
    <<"Unable to determine cause">>,
    <<"Unable to determine symptoms">>,
    <<"Consult agricultural expert">>,
    <<"Consult local agriculture office">>,
    <<"Neem oil spray recommended">>,
    <<"Maintain proper plant hygiene">> >>

(* Faulty variant of EqIgnoreCase: flag i dropped, labels match in upper case only. *)
EqCaseSensitive(tok, label) == tok = label /\ label # ""

(* Flag i of the regular expressions: a label matches in either case. *)
EqIgnoreCase(tok, label) ==
    \E i \in 1..Len(Labels) :
        /\ label = Labels[i]
        /\ tok \in {Labels[i], LowerLabels[i]}

(* \s and the characters String.prototype.trim removes. *)
IsSpace(tok) == tok \in {" ", "\n"}

(* Faulty variant of Lookahead: the alternative NEXT: left out of the lookahead. *)
LookaheadWithoutNextLabel(t, e, next) ==
    \/ e = Len(t) + 1
    \/ e + 1 <= Len(t) /\ t[e] = "\n" /\ t[e + 1] = "\n"

(* The lookahead (?=\n\n|NEXT:|$) at position e of t (e = Len(t)+1 is $). *)
Lookahead(t, e, next) ==
    \/ e = Len(t) + 1
    \/ e + 1 <= Len(t) /\ t[e] = "\n" /\ t[e + 1] = "\n"
    \/ e <= Len(t) /\ next # "" /\ EqIgnoreCase(t[e], next)

(* \s* is greedy: the whitespace tokens of t from position q on. *)
RECURSIVE SpaceRun(_, _)
SpaceRun(t, q) ==
    IF q <= Len(t) /\ IsSpace(t[q]) THEN 1 + SpaceRun(t, q + 1) ELSE 0

(* (.+?) is lazy: from the first candidate end e of group 1 on, the first  *)
(* position where the lookahead holds ($ holds at Len(t)+1 at the latest). *)
RECURSIVE LazyEnd(_, _, _)
LazyEnd(t, e, next) ==
    IF Lookahead(t, e, next) THEN e ELSE LazyEnd(t, e + 1, next)

(* Whether (.+?)(?=...) matches with group 1 starting at s: . (flag s)     *)
(* takes any token, and at least one is needed.                            *)
GroupFrom(t, s, next) ==
    /\ s <= Len(t)
    /\ \E e \in (s + 1)..(Len(t) + 1) : Lookahead(t, e, next)

(* Backtracking of \s* with the label at p: the largest k <= w such that   *)
(* the rest matches after k whitespace tokens, or -1 when none does.       *)
RECURSIVE Backtrack(_, _, _, _)
Backtrack(t, p, k, next) ==
    IF GroupFrom(t, p + 1 + k, next) THEN k
    ELSE IF k = 0 THEN -1
    ELSE Backtrack(t, p, k - 1, next)

(* LABEL:\s*(.+?)(?=...) with the label at position p: group 1, if any. *)
MatchAt(t, p, next) ==
    LET k == Backtrack(t, p, SpaceRun(t, p + 1), next)
    IN  IF k < 0 THEN [matched |-> FALSE]
        ELSE [matched |-> TRUE,
              group |-> SubSeq(t, p + 1 + k, LazyEnd(t, p + 1 + k + 1, next) - 1)]

(* text.match(/LABEL:\s*(.+?)(?=\n\n|NEXT:|$)/is): the match at the        *)
(* leftmost position that has one, or null.                                *)
RECURSIVE MatchFrom(_, _, _, _)
MatchFrom(t, p, label, next) ==
    IF p > Len(t) THEN [matched |-> FALSE]
    ELSE IF EqIgnoreCase(t[p], label) /\ MatchAt(t, p, next).matched
         THEN MatchAt(t, p, next)
         ELSE MatchFrom(t, p + 1, label, next)

RegexMatch(t, label, next) == MatchFrom(t, 1, label, next)

(* String.prototype.trim: white space is removed from both ends. *)
RECURSIVE TrimStart(_)
TrimStart(s) ==
    IF s # << >> /\ IsSpace(Head(s)) THEN TrimStart(Tail(s)) ELSE s

RECURSIVE TrimEnd(_)
TrimEnd(s) ==
    IF s # << >> /\ IsSpace(s[Len(s)]) THEN TrimEnd(SubSeq(s, 1, Len(s) - 1)) ELSE s

Trim(s) == TrimEnd(TrimStart(s))

(* One field of parseAdviceResponse: match ? match[1].trim() : fallback. *)
ExtractField(t, i) ==
    LET m == RegexMatch(t, Labels[i], NextLabel(i))
    IN  IF m.matched THEN Trim(m.group) ELSE Fallbacks[i]

(* parseAdviceResponse(text): text.match throws a TypeError on undefined,  *)
(* which the catch turns into Error('Failed to parse AI response').        *)
parseAdviceResponse(txt) ==
    IF txt.type = "undefined"
    THEN [ok |-> FALSE, error |-> "Failed to parse AI response"]
    ELSE [ok |-> TRUE,
          advice |-> [f \in {Fields[i] : i \in 1..Len(Fields)} |->
                         ExtractField(txt.val,
                             CHOOSE i \in 1..Len(Fields) : Fields[i] = f)]]

-----------------------------------------------------------------------------
(* Parser runs: parseAdviceResponse applied to replies within MaxEdits     *)
(* edits of the reply the prompt asks for.                                 *)

(* The reply in the format the prompt of generateCropAdvice prescribes:    *)
(* six labelled one-sentence sections separated by blank lines.            *)
WellFormedReply ==
    << "CAUSE:", " ", "c1", "\n", "\n",
       "SYMPTOMS:", "c2", "\n", "\n",
       "IMMEDIATE:", "c3", "\n", "\n",
       "CHEMICAL:", "c4", "\n", "\n",
       "ORGANIC:", "c5", "\n", "\n",
       "PREVENTION:", " ", "c6" >>

(* Tokens an edit may insert: a word or a newline (white space; next to   *)
(* another newline, a blank line).                                         *)
InsertTokens == {"y", "\n"}

NotParsed == [done |-> FALSE]

(* State of the route handlers while only the parser runs. *)
NoRequest ==
    /\ pc = "idle"
    /\ endpoint = "none"
    /\ body = << >>
    /\ calls = << >>
    /\ batch = [status |-> "none"]
    /\ response = [status |-> 0]
    /\ clock = 0

ParseInit ==
    /\ NoRequest
    /\ text = Str(WellFormedReply)
    /\ edits = 0
    /\ parsed = NotParsed

requestVars == <<pc, endpoint, body, calls, batch, response, clock>>

(* The provider's reply differs from the prescribed one: a token is missing. *)
DeleteToken(p) ==
    /\ ~parsed.done /\ text.type = "string" /\ edits < MaxEdits
    /\ p \in 1..Len(text.val)
    /\ text' = Str(SubSeq(text.val, 1, p - 1) \o SubSeq(text.val, p + 1, Len(text.val)))
    /\ edits' = edits + 1
    /\ UNCHANGED <<parsed, requestVars>>

(* ... or holds an extra token before position p. *)
InsertToken(p, tok) ==
    /\ ~parsed.done /\ text.type = "string" /\ edits < MaxEdits
    /\ p \in 1..Len(text.val) + 1
    /\ text' = Str(SubSeq(text.val, 1, p - 1) \o <<tok>> \o SubSeq(text.val, p, Len(text.val)))
    /\ edits' = edits + 1
    /\ UNCHANGED <<parsed, requestVars>>

(* ... or writes the label at position p in lower case. *)
LowerCaseLabel(p) ==
    /\ ~parsed.done /\ text.type = "string" /\ edits < MaxEdits
    /\ p \in 1..Len(text.val)
    /\ \E i \in 1..Len(Labels) :
           /\ text.val[p] = Labels[i]
           /\ text' = Str([text.val EXCEPT ![p] = LowerLabels[i]])
    /\ edits' = edits + 1
    /\ UNCHANGED <<parsed, requestVars>>

(* ... or carries no text at all (response.text is undefined). *)
MissingText ==
    /\ ~parsed.done /\ text.type = "string" /\ edits = 0
    /\ text' = Undefined
    /\ edits' = edits + 1
    /\ UNCHANGED <<parsed, requestVars>>

(* const advice = this.parseAdviceResponse(output) *)
Parse ==
    /\ ~parsed.done
    /\ parsed' = [done |-> TRUE, result |-> parseAdviceResponse(text)]
    /\ UNCHANGED <<text, edits, requestVars>>

ParseNext ==
    \/ \E p \in 1..(Len(WellFormedReply) + MaxEdits) : DeleteToken(p)
    \/ \E p \in 1..(Len(WellFormedReply) + MaxEdits + 1), tok \in InsertTokens :
           InsertToken(p, tok)
    \/ \E p \in 1..(Len(WellFormedReply) + MaxEdits) : LowerCaseLabel(p)
    \/ MissingText
    \/ Parse

SpecParse == ParseInit /\ [][ParseNext]_vars

-----------------------------------------------------------------------------
(* The service and its routes serving one request.                         *)

modelName == "gemini-2.5-flash"

(* Detection records a client may send.  A key that is omitted from the    *)
(* JSON object is absent from the record's domain.                         *)
Records ==
    { [crop |-> "Tomato", disease |-> "Early Blight", severity |-> "medium", confidence |-> 930],
      [crop |-> "Potato", disease |-> "Late Blight"],
      [crop |-> "Potato", disease |-> "Late Blight", severity |-> "unknown", confidence |-> 0],
      [crop |-> "Tomato", disease |-> "Early Blight", severity |-> "medium", confidence |-> 1500],
      [disease |-> "Early Blight", severity |-> "medium", confidence |-> 930],
      [crop |-> "Tomato", disease |-> "", confidence |-> 930] }

(* Bodies of POST /crop-advice/batch: no diseases key, or an array. *)
RECURSIVE SeqsUpTo(_, _)
SeqsUpTo(S, n) ==
    IF n = 0 THEN {<< >>}
    ELSE LET shorter == SeqsUpTo(S, n - 1)
         IN  shorter \cup {Append(q, x) : q \in shorter, x \in S}

BatchBodies ==
    {<< >>} \cup {[diseases |-> d] : d \in SeqsUpTo(Records, MaxBatch)}

(* What the provider may answer to generateContent: a rejection with a     *)
(* message, or a response whose text is a string (the prescribed reply or  *)
(* the empty string) or is missing.                                        *)
ProviderErrors == {"429 quota exceeded", "fetch failed"}
ReplyTexts == {Str(WellFormedReply), Str(<< >>), Undefined}

(* obj.key of a JavaScript object: undefined when the key is absent. *)
Has(obj, key) == key \in DOMAIN obj

(* !obj.key: undefined, the empty string and the number 0 are falsy       *)
(* (confidence is the one numeric key of a record).                        *)
Falsy(obj, key) ==
    \/ ~Has(obj, key)
    \/ IF key = "confidence" THEN obj[key] = 0 ELSE obj[key] = ""

(* ${value} in a template literal. *)
Interpolate(obj, key) == IF Has(obj, key) THEN obj[key] ELSE "undefined"

(* (confidence * 100).toFixed(0), confidence in thousandths: rounded to    *)
(* the nearest integer, "NaN" for undefined * 100.                         *)
ToFixed0(obj) ==
    IF ~Has(obj, "confidence") THEN "NaN"
    ELSE LET c == obj.confidence
         IN  IF c >= 0 THEN ToString((c + 5) \div 10)
             ELSE "-" \o ToString((5 - c) \div 10)

(* The prompt of generateCropAdvice: the four interpolated values (the     *)
(* rest of the template is fixed text).                                    *)
Prompt(data) ==
    << Interpolate(data, "crop"), Interpolate(data, "disease"),
       Interpolate(data, "severity"), ToFixed0(data) \o "%" >>

(* generateCropAdvice up to its await: the provider call is in flight. *)
StartCall(data) ==
    [data |-> data, prompt |-> Prompt(data), status |-> "pending"]

(* advice.metadata: a key whose value is undefined is absent. *)
Metadata(data, now) ==
    [k \in (DOMAIN data \cap {"crop", "disease", "severity", "confidence"})
              \cup {"generatedAt", "model"} |->
        IF k = "generatedAt" THEN now
        ELSE IF k = "model" THEN modelName
        ELSE data[k]]

(* The error thrown by the catch block of generateCropAdvice. *)
UpstreamPrefix == "Failed to generate advice from Gemini AI: "
WrapError(message) == [message |-> <<UpstreamPrefix, message>>]

(* generateCropAdvice after the await, the provider having resolved with   *)
(* `reply`: parse, add metadata, return; a throw of parseAdviceResponse    *)
(* lands in the same catch block as a rejection of the provider.           *)
Resolved(call, reply, now) ==
    LET r == parseAdviceResponse(reply.text)
    IN  IF r.ok
        THEN [data |-> call.data, prompt |-> call.prompt, outcome |-> reply,
              status |-> "fulfilled", settledAt |-> now,
              value |-> [f \in DOMAIN r.advice \cup {"metadata"} |->
                            IF f = "metadata" THEN Metadata(call.data, now)
                            ELSE r.advice[f]]]
        ELSE [data |-> call.data, prompt |-> call.prompt, outcome |-> reply,
              status |-> "rejected", settledAt |-> now,
              reason |-> WrapError(r.error)]

(* generateCropAdvice after the await, the provider having rejected. *)
Rejected(call, failure, now) ==
    [data |-> call.data, prompt |-> call.prompt, outcome |-> failure,
     status |-> "rejected", settledAt |-> now,
     reason |-> WrapError(failure.message)]

(* Faulty variant of PromiseAll: the values are collected in completion order. *)
PromiseAllCompletionOrder(promises, prev, i, now) ==
    IF prev.status # "pending" THEN prev
    ELSE IF promises[i].status = "rejected"
         THEN [status |-> "rejected", reason |-> promises[i].reason, settledAt |-> now]
    ELSE IF \A j \in 1..Len(promises) : promises[j].status = "fulfilled"
         THEN [status |-> "fulfilled", settledAt |-> now,
               value |-> [k \in 1..Len(promises) |->
                   promises[CHOOSE j \in 1..Len(promises) :
                       Cardinality({m \in 1..Len(promises) :
                           promises[m].settledAt <= promises[j].settledAt}) = k].value]]
    ELSE prev

(* Faulty variant of PromiseAll: waits for every promise and returns the values of *)
(* the fulfilled ones (partial success).                                   *)
PromiseAllFulfilledOnly(promises, prev, i, now) ==
    IF prev.status # "pending" THEN prev
    ELSE IF \A j \in 1..Len(promises) : promises[j].status # "pending"
         THEN LET IsFulfilled(q) == q.status = "fulfilled"
                  kept == SelectSeq(promises, IsFulfilled)
              IN  [status |-> "fulfilled", settledAt |-> now,
                   value |-> [j \in 1..Len(kept) |-> kept[j].value]]
    ELSE prev

(* Faulty variant of PromiseAll: a later rejection replaces the earlier one. *)
PromiseAllLastRejection(promises, prev, i, now) ==
    IF promises[i].status = "rejected" /\ prev.status # "fulfilled"
    THEN [status |-> "rejected", reason |-> promises[i].reason, settledAt |-> now]
    ELSE IF prev.status # "pending" THEN prev
    ELSE IF \A j \in 1..Len(promises) : promises[j].status = "fulfilled"
         THEN [status |-> "fulfilled", settledAt |-> now,
               value |-> [j \in 1..Len(promises) |-> promises[j].value]]
    ELSE prev

(* Promise.all(promises) of generateBatchAdvice after promise i settled:   *)
(* rejects with the first rejection, fulfils with the values in the order  *)
(* of the promises once all are fulfilled, and never changes once settled. *)
PromiseAll(promises, prev, i, now) ==
    IF prev.status # "pending" THEN prev
    ELSE IF promises[i].status = "rejected"
         THEN [status |-> "rejected", reason |-> promises[i].reason, settledAt |-> now]
    ELSE IF \A j \in 1..Len(promises) : promises[j].status = "fulfilled"
         THEN [status |-> "fulfilled", settledAt |-> now,
               value |-> [j \in 1..Len(promises) |-> promises[j].value]]
    ELSE prev

(* The rest of a route handler once the awaited promise has settled:       *)
(* res.json on success, the catch block's res.status(500).json otherwise.  *)
Respond(promise) ==
    IF promise.status = "fulfilled"
    THEN [status |-> 200, success |-> TRUE, data |-> promise.value]
    ELSE [status |-> 500, success |-> FALSE, error |-> promise.reason.message]

BadRequest(message) == [status |-> 400, success |-> FALSE, error |-> message]

Init ==
    /\ NoRequest
    /\ text = Undefined
    /\ edits = 0
    /\ parsed = NotParsed

parserVars == <<text, edits, parsed>>

(* router.post('/crop-advice') up to its await. *)
PostCropAdvice(b) ==
    /\ pc = "idle"
    /\ endpoint' = "single"
    /\ body' = b
    /\ IF Falsy(b, "crop") \/ Falsy(b, "disease")
       THEN /\ response' = BadRequest("Missing required fields: crop and disease are required")
            /\ pc' = "responded"
            /\ calls' = << >>
       ELSE IF Has(b, "confidence") /\ (b.confidence < 0 \/ b.confidence > 1000)
       THEN /\ response' = BadRequest("Confidence must be between 0 and 1")
            /\ pc' = "responded"
            /\ calls' = << >>
       ELSE /\ calls' = << StartCall(
                   [crop |-> b.crop,
                    disease |-> b.disease,
                    severity |-> IF Falsy(b, "severity") THEN "unknown" ELSE b.severity,
                    confidence |-> IF Falsy(b, "confidence") THEN 0 ELSE b.confidence]) >>
            /\ pc' = "awaiting"
            /\ response' = response
    /\ UNCHANGED <<batch, clock, parserVars>>

(* generateBatchAdvice up to its return: one call per element, in order. *)
generateBatchAdvice(diseaseDataArray) ==
    [i \in 1..Len(diseaseDataArray) |-> StartCall(diseaseDataArray[i])]

(* router.post('/crop-advice/batch') up to its await. *)
PostCropAdviceBatch(b) ==
    /\ pc = "idle"
    /\ endpoint' = "batch"
    /\ body' = b
    /\ IF ~Has(b, "diseases") \/ Len(b.diseases) = 0
       THEN /\ response' = BadRequest("Missing or invalid diseases array")
            /\ pc' = "responded"
            /\ UNCHANGED <<calls, batch>>
       ELSE IF \E i \in 1..Len(b.diseases) :
                   Falsy(b.diseases[i], "crop") \/ Falsy(b.diseases[i], "disease")
       THEN /\ response' = BadRequest("Each disease entry must have crop and disease fields")
            /\ pc' = "responded"
            /\ UNCHANGED <<calls, batch>>
       ELSE /\ calls' = generateBatchAdvice(b.diseases)
            /\ batch' = [status |-> "pending"]
            /\ pc' = "awaiting"
            /\ response' = response
    /\ UNCHANGED <<clock, parserVars>>

(* Call i has settled as `settled`: the promise the route awaits follows,  *)
(* and the route answers if that promise has just settled.                 *)
Settle(i, settled) ==
    /\ clock' = clock + 1
    /\ calls' = [calls EXCEPT ![i] = settled]
    /\ IF endpoint = "batch"
       THEN /\ batch' = PromiseAll(calls', batch, i, clock')
            /\ IF pc = "awaiting" /\ batch'.status # "pending"
               THEN pc' = "responded" /\ response' = Respond(batch')
               ELSE UNCHANGED <<pc, response>>
       ELSE /\ batch' = batch
            /\ pc' = "responded"
            /\ response' = Respond(settled)
    /\ UNCHANGED <<endpoint, body, parserVars>>

(* The provider resolves call i with a response carrying txt. *)
ProviderResolves(i, txt) ==
    /\ i \in 1..Len(calls)
    /\ calls[i].status = "pending"
    /\ Settle(i, Resolved(calls[i], [kind |-> "resolve", text |-> txt], clock + 1))

(* The provider rejects call i (network, authentication, quota). *)
ProviderRejects(i, message) ==
    /\ i \in 1..Len(calls)
    /\ calls[i].status = "pending"
    /\ Settle(i, Rejected(calls[i], [kind |-> "reject", message |-> message], clock + 1))

Next ==
    \/ \E b \in Records : PostCropAdvice(b)
    \/ \E b \in BatchBodies : PostCropAdviceBatch(b)
    \/ \E i \in 1..(MaxBatch + 1), txt \in ReplyTexts : ProviderResolves(i, txt)
    \/ \E i \in 1..(MaxBatch + 1), message \in ProviderErrors : ProviderRejects(i, message)

Spec == Init /\ [][Next]_vars

-----------------------------------------------------------------------------
(* Properties of the service and its routes (specification Spec).          *)

CallIds == 1..Len(calls)
Settled(i) == calls[i].status # "pending"

(* The record of the request from which call i was issued. *)
SourceRecord(i) == IF endpoint = "single" THEN body ELSE body.diseases[i]

(* The records of the request being served. *)
RequestRecords ==
    IF endpoint = "single" THEN {body}
    ELSE IF endpoint = "batch" /\ "diseases" \in DOMAIN body
         THEN {body.diseases[i] : i \in 1..Len(body.diseases)}
    ELSE {}

(* The invariant of DetectionInput. *)
ValidRecord(r) ==
    /\ "crop" \in DOMAIN r /\ r.crop # ""
    /\ "disease" \in DOMAIN r /\ r.disease # ""
    /\ "confidence" \in DOMAIN r => (r.confidence >= 0 /\ r.confidence <= 1000)

(* A record with its omitted severity and confidence given explicitly. *)
WithDefaults(r) ==
    [crop |-> r.crop,
     disease |-> r.disease,
     severity |-> IF "severity" \in DOMAIN r THEN r.severity ELSE "unknown",
     confidence |-> IF "confidence" \in DOMAIN r THEN r.confidence ELSE 0]

(* The rejected calls that settled first. *)
FirstFailures ==
    {i \in CallIds :
        /\ calls[i].status = "rejected"
        /\ \A j \in CallIds :
              calls[j].status = "rejected" => calls[i].settledAt <= calls[j].settledAt}

(* C1: when every call of a batch has completed successfully, in whatever  *)
(* order, generateBatchAdvice returns one result per input record, result  *)
(* i being the advice generated for input i (its metadata carry input i's  *)
(* crop and disease), and the route sends that list.                       *)
C1_BatchPreservesInputOrder ==
    (endpoint = "batch" /\ calls # << >>
        /\ \A i \in CallIds : calls[i].status = "fulfilled")
    => /\ batch.status = "fulfilled"
       /\ Len(batch.value) = Len(body.diseases)
       /\ \A i \in 1..Len(body.diseases) :
             /\ batch.value[i] = calls[i].value
             /\ batch.value[i].metadata.crop = body.diseases[i].crop
             /\ batch.value[i].metadata.disease = body.diseases[i].disease
       /\ response.status = 200
       /\ response.data = batch.value

(* Two different records, the second one's call completing first. *)
C1_Witness ==
    /\ endpoint = "batch" /\ Len(calls) = 2
    /\ batch.status = "fulfilled"
    /\ body.diseases[1].crop # body.diseases[2].crop
    /\ calls[2].settledAt < calls[1].settledAt
    /\ response.status = 200

(* C2: once the provider call of at least one item of a batch has failed   *)
(* (or the item's generation has failed otherwise), the batch promise is   *)
(* rejected - it never carries a result sequence - and the route has       *)
(* answered with a failure that holds no data list, whatever the other     *)
(* calls do.                                                               *)
C2_BatchAllOrNothing ==
    (endpoint = "batch"
        /\ \E i \in CallIds :
               Settled(i) /\ (calls[i].outcome.kind = "reject" \/ calls[i].status = "rejected"))
    => /\ batch.status = "rejected"
       /\ "value" \notin DOMAIN batch
       /\ pc = "responded"
       /\ response.status = 500
       /\ ~response.success
       /\ "data" \notin DOMAIN response

(* One item succeeded, another failed, all calls have completed. *)
C2_Witness ==
    /\ endpoint = "batch"
    /\ \A i \in CallIds : Settled(i)
    /\ \E i \in CallIds : calls[i].status = "fulfilled"
    /\ \E i \in CallIds : calls[i].status = "rejected" /\ calls[i].outcome.kind = "reject"
    /\ response.status = 500

(* C3: whenever the provider call failed - a rejection, or a reply whose   *)
(* text is empty or missing - generateCropAdvice fails with the upstream   *)
(* error and returns no advice object.                                     *)
C3_UpstreamFailureNeverReturnsAdvice ==
    \A i \in CallIds :
        (Settled(i)
            /\ (\/ calls[i].outcome.kind = "reject"
                \/ calls[i].outcome.text = Undefined
                \/ calls[i].outcome.text = Str(<< >>)))
        => /\ calls[i].status = "rejected"
           /\ calls[i].reason.message[1] = UpstreamPrefix

(* C4: when the provider call succeeded and parseAdviceResponse threw,     *)
(* generateCropAdvice fails with an error that is not the one reported for *)
(* a failed provider call.                                                 *)
C4_ParseErrorIsDistinct ==
    \A i \in CallIds :
        (Settled(i)
            /\ calls[i].outcome.kind = "resolve"
            /\ calls[i].outcome.text = Undefined)
        => /\ calls[i].status = "rejected"
           /\ calls[i].reason.message[1] # UpstreamPrefix

(* C8: every record handed to generateCropAdvice satisfies the invariant   *)
(* of DetectionInput, and a request holding a record that violates it is   *)
(* answered 400 without any call being issued.                             *)
C8_OnlyValidRecordsReachCore ==
    /\ \A i \in CallIds : ValidRecord(calls[i].data)
    /\ (pc # "idle" /\ \E r \in RequestRecords : ~ValidRecord(r))
           => (calls = << >> /\ response.status = 400)

(* C9: for a record with severity or confidence omitted, on either         *)
(* endpoint, the prompt and the metadata are those of the same record with *)
(* severity "unknown" and confidence 0.0 given explicitly.                 *)
C9_OmittedFieldsDefaulted ==
    \A i \in CallIds :
        /\ calls[i].prompt = Prompt(WithDefaults(SourceRecord(i)))
        /\ calls[i].status = "fulfilled" =>
              calls[i].value.metadata =
                  Metadata(WithDefaults(SourceRecord(i)), calls[i].settledAt)

(* C10: a rejected batch carries the error of the item that failed first   *)
(* in time, was rejected and answered at the time of that failure, and is  *)
(* not changed by calls that complete later.                               *)
C10_BatchFailsWithFirstFailure ==
    (endpoint = "batch" /\ batch.status = "rejected")
    => \E i \in FirstFailures :
          /\ batch.reason = calls[i].reason
          /\ batch.settledAt = calls[i].settledAt
          /\ pc = "responded"
          /\ response.status = 500
          /\ response.error = calls[i].reason.message

(* Two items failed with different errors, the higher-indexed one first. *)
C10_Witness ==
    /\ endpoint = "batch" /\ batch.status = "rejected"
    /\ \E i, j \in CallIds :
          /\ i < j
          /\ calls[i].status = "rejected" /\ calls[j].status = "rejected"
          /\ calls[j].settledAt < calls[i].settledAt
          /\ calls[i].reason # calls[j].reason
          /\ response.error = calls[j].reason.message

-----------------------------------------------------------------------------
(* Properties of parseAdviceResponse (specification SpecParse).            *)

ParsedOk == parsed.done /\ parsed.result.ok
FieldIds == 1..Len(Fields)

(* The label of field i, in either case. *)
IsLabelToken(tok, i) == tok = Labels[i] \/ tok = LowerLabels[i]
IsAnyLabel(tok) == \E i \in FieldIds : IsLabelToken(tok, i)
LabelPositions(t, i) == {p \in 1..Len(t) : IsLabelToken(t[p], i)}

(* t holds each of the six labels exactly once, in the order of the prompt. *)
SixLabelsInOrder(t) ==
    LET ls == SelectSeq(t, IsAnyLabel)
    IN  /\ Len(ls) = Len(Labels)
        /\ \A i \in FieldIds : IsLabelToken(ls[i], i)

(* The text between label i and the next label (the end for the last). *)
Between(t, i) ==
    LET from == CHOOSE p \in LabelPositions(t, i) : TRUE
        to   == IF i < Len(Labels)
                THEN CHOOSE p \in LabelPositions(t, i + 1) : TRUE
                ELSE Len(t) + 1
    IN  SubSeq(t, from + 1, to - 1)

(* s without its leading and trailing white space. *)
RECURSIVE Stripped(_)
Stripped(s) ==
    IF s = << >> THEN s
    ELSE IF s[1] \in {" ", "\n"} THEN Stripped(SubSeq(s, 2, Len(s)))
    ELSE IF s[Len(s)] \in {" ", "\n"} THEN Stripped(SubSeq(s, 1, Len(s) - 1))
    ELSE s

(* The first position of t from p on that holds no white space (Len(t)+1   *)
(* when there is none).                                                    *)
RECURSIVE FirstText(_, _)
FirstText(t, p) ==
    IF p <= Len(t) /\ t[p] \in {" ", "\n"} THEN FirstText(t, p + 1) ELSE p

HasBlankLine(s) == \E j \in 1..(Len(s) - 1) : s[j] = "\n" /\ s[j + 1] = "\n"

(* C5: each of the six fields of a parsed reply is a non-empty string.     *)
C5_FieldsNeverEmpty ==
    ParsedOk => \A i \in FieldIds : parsed.result.advice[Fields[i]] # << >>

(* C6 as stated: with the six labels in order and content between them,    *)
(* each field is exactly the trimmed text between its label and the next.  *)
C6_ExactTextBetweenLabels ==
    (ParsedOk /\ SixLabelsInOrder(text.val)
        /\ \A i \in FieldIds : Stripped(Between(text.val, i)) # << >>)
    => \A i \in FieldIds :
          parsed.result.advice[Fields[i]] = Stripped(Between(text.val, i))

(* C6 amended: the same, for sections whose trimmed content holds no blank *)
(* line (a blank line ends the extracted text).                            *)
C6_ExactTextUpToBlankLine ==
    (ParsedOk /\ SixLabelsInOrder(text.val)
        /\ \A i \in FieldIds :
              /\ Stripped(Between(text.val, i)) # << >>
              /\ ~HasBlankLine(Stripped(Between(text.val, i))))
    => \A i \in FieldIds :
          parsed.result.advice[Fields[i]] = Stripped(Between(text.val, i))

(* An edited reply with a section of several tokens, extracted whole. *)
C6_Witness ==
    /\ ParsedOk /\ edits > 0 /\ SixLabelsInOrder(text.val)
    /\ \A i \in FieldIds :
          /\ Stripped(Between(text.val, i)) # << >>
          /\ ~HasBlankLine(Stripped(Between(text.val, i)))
    /\ \E i \in FieldIds :
          /\ Len(Stripped(Between(text.val, i))) > 1
          /\ parsed.result.advice[Fields[i]] = Stripped(Between(text.val, i))

(* C7: parsing a string never fails; a field whose label does not occur    *)
(* (in either case) is exactly its fallback; a field whose label occurs    *)
(* and is followed by text is extracted, starting at the first token that  *)
(* is not white space; the six fallbacks are pairwise distinct.            *)
C7_MissingLabelGivesFallback ==
    (parsed.done /\ text.type = "string")
    => /\ parsed.result.ok
       /\ \A i \in FieldIds :
             LET ps == LabelPositions(text.val, i)
             IN  IF ps = {}
                 THEN parsed.result.advice[Fields[i]] = Fallbacks[i]
                 ELSE LET p == CHOOSE p \in ps : \A q \in ps : p <= q
                          s == FirstText(text.val, p + 1)
                      IN  s <= Len(text.val) =>
                             /\ parsed.result.advice[Fields[i]] # Fallbacks[i]
                             /\ Head(parsed.result.advice[Fields[i]]) = text.val[s]
       /\ \A i, j \in FieldIds : i # j => Fallbacks[i] # Fallbacks[j]

(* A label is missing and its field is the fallback, while another field,  *)
(* whose label is written in lower case, is extracted.                     *)
C7_Witness ==
    /\ ParsedOk
    /\ \E i, j \in FieldIds :
          /\ LabelPositions(text.val, i) = {}
          /\ parsed.result.advice[Fields[i]] = Fallbacks[i]
          /\ \E p \in 1..Len(text.val) : text.val[p] = LowerLabels[j]
          /\ parsed.result.advice[Fields[j]] # Fallbacks[j]

=============================================================================
